---- MODULE Spec2Model ----
(***************************************************************************)
(* Model of the Antigravity Unity Bridge client (src/unity_bridge.py):     *)
(* server discovery over the port range, the connection check, and the    *)
(* GET/POST dispatchers with their timeout / rediscovery / retry paths.   *)
(*                                                                         *)
(* The remote server is the environment: every HTTP call made by the       *)
(* client draws its transport outcome (an exception of the requests       *)
(* library, or a response with a status code and a body) from Outcomes.   *)
(***************************************************************************)
EXTENDS Integers, Sequences, FiniteSets, TLC

(***************************************************************************)
(* Bounds of the model.                                                    *)
(***************************************************************************)
\* number of public operations one behaviour may start
MaxCalls == 3

\* number of dispatches the two concurrent threads may start between them
MaxThreadCalls == 2

\* number of operations one behaviour may start when time is counted
MaxTimedCalls == 1

\* calls of modify_light, modify_material and modify_particles in one behaviour
MaxModifyCalls == 1

(***************************************************************************)
(* Program constants.                                                      *)
(***************************************************************************)
\* variant: the range stops one port short (8080..8089)
PortsOneShort == <<8080, 8081, 8082, 8083, 8084, 8085, 8086, 8087, 8088, 8089>>

\* line 13: the candidate ports, in the order of the list
UNITY_DEFAULT_PORTS == <<8080, 8081, 8082, 8083, 8084, 8085, 8086, 8087, 8088, 8089, 8090>>

\* lines 14-15: the port named by the initial UNITY_BASE_URL / UNITY_SERVER_PORT
DefaultPort == 8080

\* line 25: the only status the discovery probe accepts
StatusOK == 200

\* the timeout arguments of the HTTP calls, in half seconds:
\* line 24 (0.5 s), line 36 (2 s), lines 201 and 219 (5 s), lines 249 and 267 (10 s)
ProbeTimeout == 1
HealthTimeout == 4
GetTimeout == 10
PostTimeout == 20

\* line 31: discover_server's "return None" (a port is never 0)
NoPort == 0

\* threads of the host program that may call into the bridge
Threads == {"main", "worker"}

\* the single caller of the sequential specification
SingleCaller == {"main"}

(***************************************************************************)
(* Python values returned to the caller.                                   *)
(***************************************************************************)
PyNone == <<"None">>
PyBool(b) == <<"bool", b>>
PyInt(n) == <<"int", n>>
PyDoc(body) == <<"json", body>>
\* the operation has not returned
Pending == <<"pending">>
\* the operation ended by an exception that left the function
Raised(e) == <<"raised", e>>

(***************************************************************************)
(* Transport outcomes.                                                     *)
(***************************************************************************)
\* exceptions requests.get / requests.post can raise
TransportExcs == {"ConnectionError", "ConnectTimeout", "ReadTimeout", "ChunkedEncodingError"}

\* status codes a server may answer with
Statuses == {200, 404, 500}

\* response bodies: two JSON documents, the JSON literal null, and a non-JSON body
Bodies == {"{\"success\":true}", "[]", "null", "<html>"}

ExcOutcome(e) == [kind |-> "exc", exc |-> e, status |-> 0, body |-> ""]
RespOutcome(s, b) == [kind |-> "resp", exc |-> "", status |-> s, body |-> b]

Outcomes == {ExcOutcome(e) : e \in TransportExcs}
            \cup {RespOutcome(s, b) : s \in Statuses, b \in Bodies}

\* the classes an exception is an instance of (requests.exceptions / json)
ExcClasses(e) ==
    CASE e = "ConnectionError"      -> {"ConnectionError", "RequestException", "Exception"}
      [] e = "ConnectTimeout"       -> {"ConnectTimeout", "ConnectionError", "Timeout",
                                        "RequestException", "Exception"}
      [] e = "ReadTimeout"          -> {"ReadTimeout", "Timeout", "RequestException", "Exception"}
      [] e = "ChunkedEncodingError" -> {"ChunkedEncodingError", "RequestException", "Exception"}
      [] e = "JSONDecodeError"      -> {"JSONDecodeError", "ValueError", "Exception"}
      [] e = "UnicodeEncodeError"   -> {"UnicodeEncodeError", "UnicodeError", "ValueError",
                                        "Exception"}
      [] OTHER                      -> {"Exception"}

\* response.json(): the parsed document, or JSONDecodeError
IsJson(body) == body # "<html>"
ParseJson(body) == IF body = "null" THEN PyNone ELSE PyDoc(body)

\* try/except: the first clause, in source order, that matches the exception
Catch(clauses, e) ==
    LET hits == {i \in 1..Len(clauses) : clauses[i] = "bare" \/ clauses[i] \in ExcClasses(e)}
    IN  IF hits = {} THEN "propagate"
        ELSE clauses[CHOOSE i \in hits : \A j \in hits : i <= j]

\* variant: a status of 400 or more raises, as after response.raise_for_status()
BodyRaisesForStatus(r) ==
    IF r.kind = "exc" THEN r.exc
    ELSE IF r.status >= 400 THEN "HTTPError"
    ELSE IF ~IsJson(r.body) THEN "JSONDecodeError"
    ELSE "none"

\* what the body "response = requests.get(..); result = response.json()" raises
BodyRaises(r) ==
    IF r.kind = "exc" THEN r.exc
    ELSE IF ~IsJson(r.body) THEN "JSONDecodeError"
    ELSE "none"

(***************************************************************************)
(* State.                                                                  *)
(***************************************************************************)
VARIABLES
    UNITY_BASE_URL,     \* global: the port named in the base URL string
    UNITY_SERVER_PORT,  \* global: the port number
    pc,                 \* per thread: the statement the thread is at
    op,                 \* per thread: the public operation in progress
    url,                \* per thread: the port named in the local variable url
    idx,                \* per thread: position of discover_server's loop
    port,               \* per thread: discover_server's return value
    ret,                \* per thread: the value returned by the last operation
    handler,            \* per thread: the except clause the operation returned from
    printed,            \* per thread: the messages written by the operation
    attempts,           \* per thread: the command requests sent by the operation
    probes,             \* per thread: the health probes sent by the operation
    health,             \* per thread: outcome of ensure_server_connection's own probe
    cycles,             \* per thread: discover_server calls made by the operation
    entryURL,           \* per thread: UNITY_BASE_URL / UNITY_SERVER_PORT at the call
    verified,           \* ports that answered a probe with 200 or a request with JSON
    returned,           \* <<except clause, value>> of every failed dispatch so far
    calls,              \* number of operations started
    payload,            \* per thread: the function that built the request being dispatched,
                        \* its arguments, and the path and the data of the request
    stdout,             \* the encoding of sys.stdout, which print() writes to
    PRIMITIVES,         \* global: the primitive templates (a dict of lists, mutable)
    elapsed,            \* per thread: time the operation has blocked its caller so far
    waited,             \* per thread: time the HTTP call in progress has taken so far
    server,             \* the port a Unity server listens on, NoPort when the
                        \* environment is left unconstrained
    colorInput,         \* the argument of the last parse_color call
    colorResult         \* the value the last parse_color call returned

vars == <<UNITY_BASE_URL, UNITY_SERVER_PORT, pc, op, url, idx, port, ret, handler,
          printed, attempts, probes, health, cycles, entryURL, verified, returned, calls,
          payload, stdout, PRIMITIVES, elapsed, waited, server, colorInput, colorResult>>

globals == <<UNITY_BASE_URL, UNITY_SERVER_PORT>>

\* state the network operations never write
untouched == <<stdout, PRIMITIVES, server, colorInput, colorResult>>

\* the clock of the blocking calls
clock == <<elapsed, waited>>

Operations == {"send_get_request", "send_post_request", "ensure_server_connection",
               "discover_server"}
Dispatches == {"send_get_request", "send_post_request"}

\* lines 66-107: the components of each primitive template, in the order of the lists
PrimitiveTemplates ==
    [cube     |-> <<"MeshFilter", "MeshRenderer", "BoxCollider">>,
     sphere   |-> <<"MeshFilter", "MeshRenderer", "SphereCollider">>,
     plane    |-> <<"MeshFilter", "MeshRenderer", "MeshCollider">>,
     cylinder |-> <<"MeshFilter", "MeshRenderer", "CapsuleCollider">>,
     capsule  |-> <<"MeshFilter", "MeshRenderer", "CapsuleCollider">>,
     quad     |-> <<"MeshFilter", "MeshRenderer">>,
     empty    |-> <<>>,
     light    |-> <<"Light">>,
     camera   |-> <<"Camera", "AudioListener">>,
     canvas   |-> <<"Canvas", "CanvasScaler", "GraphicRaycaster">>]

\* the request of a caller that built its data itself
CallerData == [by |-> "caller", kind |-> "", physics |-> FALSE,
               path |-> "caller", components |-> <<"caller">>]

\* no parse_color call has been made
NoColorInput == <<"none">>

\* the state once the module is imported, sys.stdout and parse_color aside
Imported ==
    /\ UNITY_BASE_URL = DefaultPort
    /\ UNITY_SERVER_PORT = DefaultPort
    /\ pc = [t \in Threads |-> "idle"]
    /\ op = [t \in Threads |-> "none"]
    /\ url = [t \in Threads |-> NoPort]
    /\ idx = [t \in Threads |-> 1]
    /\ port = [t \in Threads |-> NoPort]
    /\ ret = [t \in Threads |-> Pending]
    /\ handler = [t \in Threads |-> "none"]
    /\ printed = [t \in Threads |-> <<>>]
    /\ attempts = [t \in Threads |-> <<>>]
    /\ probes = [t \in Threads |-> <<>>]
    /\ health = [t \in Threads |-> "none"]
    /\ cycles = [t \in Threads |-> 0]
    /\ entryURL = [t \in Threads |-> <<DefaultPort, DefaultPort>>]
    /\ verified = {}
    /\ returned = {}
    /\ calls = 0
    /\ payload = [t \in Threads |-> CallerData]
    /\ PRIMITIVES = PrimitiveTemplates
    /\ elapsed = [t \in Threads |-> 0]
    /\ waited = [t \in Threads |-> 0]

\* ... and parse_color has not been called
ModuleLoaded ==
    /\ Imported
    /\ server = NoPort
    /\ colorInput = NoColorInput
    /\ colorResult = Pending

\* the module is imported in a process whose stdout encodes every character
Init ==
    /\ ModuleLoaded
    /\ stdout = "utf-8"

(***************************************************************************)
(* Decisions taken by the code.                                            *)
(***************************************************************************)
\* variant: ConnectionError is caught before Timeout
SendHandlersConnectionFirst == <<"ConnectionError", "Timeout", "JSONDecodeError", "Exception">>

\* variant: the generic clause comes before the JSON clause
SendHandlersGenericFirst == <<"Timeout", "ConnectionError", "Exception", "JSONDecodeError">>

\* lines 206-239 (and 254-287): the except clauses of the dispatcher, in order
SendHandlers == <<"Timeout", "ConnectionError", "JSONDecodeError", "Exception">>

\* lines 224 (and 272): the bare except around the retry
RetryHandlers == <<"bare">>

\* variant: the probe catches connection errors only
DiscoverHandlersNarrow == <<"ConnectionError">>

\* line 29: the bare except around one discovery probe
DiscoverHandlers == <<"bare">>

\* variant: Timeout is caught before ConnectionError
EnsureHandlersTimeoutFirst == <<"Timeout", "ConnectionError">>

\* lines 38 and 52: the except clauses of ensure_server_connection, in order
EnsureHandlers == <<"ConnectionError", "Timeout">>

\* line 25: a probe matches when the response has status 200
ProbeMatches(r) == r.kind = "resp" /\ r.status = StatusOK

\* variant: the health request counts only when the status is 200
HealthAnswersOnly200(r) == r.kind = "resp" /\ r.status = StatusOK

\* lines 36-37: any response to the health request makes ensure return True
HealthAnswers(r) == r.kind = "resp"

\* variant: the retry is sent whatever discover_server returned
FoundAlways(p) == TRUE

\* variant: the test of discover_server's result is inverted
FoundInverted(p) == p = NoPort

\* lines 215 and 41: "if port:"
Found(p) == p # NoPort

\* lines 211, 234, 238, 241: every except clause of the dispatcher returns None
FailureValue(clause) == PyNone

\* lines 207-210, 226-233, 236-237, 240: the message each except clause prints
FailureMessage(clause) ==
    CASE clause = "Timeout"         -> "request_timeout_box"
      [] clause = "ConnectionError" -> "cannot_connect_box"
      [] clause = "JSONDecodeError" -> "not_json"
      [] OTHER                      -> "error_text"

(***************************************************************************)
(* The reporter: print() and print_json().                                 *)
(***************************************************************************)
\* the encodings sys.stdout may have: UTF-8, or a legacy code page
Encodings == {"utf-8", "cp1252"}

\* print(msg) succeeds: the output of print_json (line 193, json.dumps escapes to
\* ASCII) and the lines 297 and 322-331 are ASCII; every other message of the bridge
\* starts with a check mark, a cross or a box-drawing character (lines 202, 207, 216,
\* 226, 236, 240, 43, 53, 296), which a legacy code page cannot encode
Encodes(enc, msg) == enc = "utf-8" \/ msg \in {"json", "available_primitives", "creating"}

\* the messages of msgs written before the first print() that raises
RECURSIVE Written(_, _)
Written(enc, msgs) ==
    IF msgs = <<>> \/ ~Encodes(enc, Head(msgs)) THEN <<>>
    ELSE <<Head(msgs)>> \o Written(enc, Tail(msgs))

\* some print() of msgs raises UnicodeEncodeError
PrintRaises(enc, msgs) == \E i \in 1..Len(msgs) : ~Encodes(enc, msgs[i])

(***************************************************************************)
(* Steps shared by the operations.                                         *)
(***************************************************************************)
\* the operation of thread t prints msgs and returns value from the given
\* except clause ("none": from the end of the function or of the try body);
\* a print() that raises there leaves the function with its exception
Finish(t, value, clause, msgs) ==
    /\ pc' = [pc EXCEPT ![t] = "idle"]
    /\ printed' = [printed EXCEPT ![t] = @ \o Written(stdout, msgs)]
    /\ IF PrintRaises(stdout, msgs)
       THEN /\ ret' = [ret EXCEPT ![t] = Raised("UnicodeEncodeError")]
            /\ handler' = [handler EXCEPT ![t] = "propagate"]
            /\ UNCHANGED returned
       ELSE /\ ret' = [ret EXCEPT ![t] = value]
            /\ handler' = [handler EXCEPT ![t] = clause]
            /\ returned' = IF op[t] \in Dispatches /\ clause \notin {"none", "propagate"}
                           THEN returned \cup {<<clause, value>>}
                           ELSE returned

\* thread t enters discover_server (line 17): the loop starts at the first port
EnterDiscover(t) ==
    /\ pc' = [pc EXCEPT ![t] = "probe"]
    /\ idx' = [idx EXCEPT ![t] = 1]
    /\ cycles' = [cycles EXCEPT ![t] = @ + 1]

\* the log entry of a command request sent to url[t] with outcome r
Attempt(t, r) ==
    [port |-> url[t], raised |-> BodyRaises(r), known |-> url[t] \in verified,
     status |-> r.status, body |-> r.body]

\* the log entry of a health probe sent to port p with outcome r
ProbeEntry(p, by, r) ==
    [port |-> p, by |-> by, ok |-> (r.kind = "resp" /\ r.status = 200)]

\* the messages printed by the try body before response.json() is called (line 202)
StatusLine(r) == IF r.kind = "resp" /\ Encodes(stdout, "status") THEN <<"status">> ELSE <<>>

\* what the try body raises (lines 201-205): the exception of requests.get, else that
\* of print() for the status line, else that of response.json()
TryRaises(r) ==
    IF r.kind = "exc" THEN r.exc
    ELSE IF ~Encodes(stdout, "status") THEN "UnicodeEncodeError"
    ELSE BodyRaises(r)

(***************************************************************************)
(* Operations.                                                             *)
(***************************************************************************)
\* a thread calls a public operation; the dispatchers read the base URL
\* into the local url (lines 199, 246)
Call(t, o) ==
    /\ pc[t] = "idle"
    /\ calls < MaxCalls
    /\ calls' = calls + 1
    /\ op' = [op EXCEPT ![t] = o]
    /\ ret' = [ret EXCEPT ![t] = Pending]
    /\ handler' = [handler EXCEPT ![t] = "none"]
    /\ printed' = [printed EXCEPT ![t] = <<>>]
    /\ attempts' = [attempts EXCEPT ![t] = <<>>]
    /\ probes' = [probes EXCEPT ![t] = <<>>]
    /\ health' = [health EXCEPT ![t] = "none"]
    /\ port' = [port EXCEPT ![t] = NoPort]
    /\ entryURL' = [entryURL EXCEPT ![t] = <<UNITY_BASE_URL, UNITY_SERVER_PORT>>]
    /\ IF o \in Dispatches
       THEN /\ url' = [url EXCEPT ![t] = UNITY_BASE_URL]
            /\ pc' = [pc EXCEPT ![t] = "request"]
            /\ cycles' = [cycles EXCEPT ![t] = 0]
            /\ UNCHANGED idx
       ELSE IF o = "ensure_server_connection"
       THEN /\ pc' = [pc EXCEPT ![t] = "health"]
            /\ cycles' = [cycles EXCEPT ![t] = 0]
            /\ UNCHANGED <<url, idx>>
       ELSE /\ pc' = [pc EXCEPT ![t] = "probe"]
            /\ idx' = [idx EXCEPT ![t] = 1]
            /\ cycles' = [cycles EXCEPT ![t] = 1]
            /\ UNCHANGED url
    /\ payload' = [payload EXCEPT ![t] = CallerData]
    /\ elapsed' = [elapsed EXCEPT ![t] = 0]
    /\ waited' = [waited EXCEPT ![t] = 0]
    /\ UNCHANGED <<globals, verified, returned, untouched>>

\* send_get_request / send_post_request, first attempt (lines 200-241, 248-289)
Request(t, r) ==
    /\ pc[t] = "request"
    /\ attempts' = [attempts EXCEPT ![t] = Append(@, Attempt(t, r))]
    /\ LET e == TryRaises(r)
           clause == Catch(SendHandlers, e)
       IN  IF e = "none"
           THEN /\ Finish(t, ParseJson(r.body), "none", <<"status", "json">>)
                /\ verified' = verified \cup {url[t]}
                /\ UNCHANGED <<idx, cycles>>
           ELSE IF clause = "propagate"
           THEN /\ Finish(t, Raised(e), "propagate", StatusLine(r))
                /\ UNCHANGED <<idx, cycles, verified>>
           ELSE IF clause = "ConnectionError"
           THEN /\ EnterDiscover(t)
                /\ printed' = [printed EXCEPT ![t] = @ \o StatusLine(r)]
                /\ UNCHANGED <<ret, handler, returned, verified>>
           ELSE /\ Finish(t, FailureValue(clause), clause,
                          StatusLine(r) \o <<FailureMessage(clause)>>)
                /\ UNCHANGED <<idx, cycles, verified>>
    /\ UNCHANGED <<globals, op, url, port, probes, health, entryURL, calls>>
    /\ waited' = [waited EXCEPT ![t] = 0]
    /\ UNCHANGED <<elapsed, payload, untouched>>

\* ensure_server_connection, the health request to the cached endpoint (lines 35-63)
Health(t, r) ==
    /\ pc[t] = "health"
    /\ probes' = [probes EXCEPT ![t] =
                    Append(@, ProbeEntry(UNITY_BASE_URL, "ensure_server_connection", r))]
    /\ health' = [health EXCEPT ![t] = IF r.kind = "resp" THEN "answered" ELSE r.exc]
    /\ IF HealthAnswers(r)
       THEN /\ Finish(t, PyBool(TRUE), "none", <<>>)
            /\ verified' = IF r.status = StatusOK THEN verified \cup {UNITY_BASE_URL}
                           ELSE verified
            /\ UNCHANGED <<idx, cycles>>
       ELSE LET clause == Catch(EnsureHandlers, r.exc)
            IN  IF clause = "ConnectionError"
                THEN /\ EnterDiscover(t)
                     /\ UNCHANGED <<ret, handler, printed, returned, verified>>
                ELSE IF clause = "Timeout"
                THEN /\ Finish(t, PyBool(FALSE), clause, <<"server_timeout_box">>)
                     /\ UNCHANGED <<idx, cycles, verified>>
                ELSE /\ Finish(t, Raised(r.exc), "propagate", <<>>)
                     /\ UNCHANGED <<idx, cycles, verified>>
    /\ UNCHANGED <<globals, op, url, port, attempts, entryURL, calls>>
    /\ waited' = [waited EXCEPT ![t] = 0]
    /\ UNCHANGED <<elapsed, payload, untouched>>

\* discover_server, one iteration of the loop (lines 21-31)
Probe(t, r) ==
    /\ pc[t] = "probe"
    /\ LET p == UNITY_DEFAULT_PORTS[idx[t]]
           last == idx[t] = Len(UNITY_DEFAULT_PORTS)
       IN  /\ probes' = [probes EXCEPT ![t] = Append(@, ProbeEntry(p, "discover_server", r))]
           /\ IF ProbeMatches(r)
              THEN \* line 26
                   /\ UNITY_BASE_URL' = p
                   /\ pc' = [pc EXCEPT ![t] = "store_port"]
                   /\ verified' = verified \cup {p}
                   /\ UNCHANGED <<idx, port, ret, handler, printed, returned>>
              ELSE IF r.kind = "exc" /\ Catch(DiscoverHandlers, r.exc) = "propagate"
              THEN /\ Finish(t, Raised(r.exc), "propagate", <<>>)
                   /\ UNCHANGED <<UNITY_BASE_URL, idx, port, verified>>
              ELSE \* line 30 continue, or the end of the if; line 31 after the last port
                   /\ IF last
                      THEN /\ port' = [port EXCEPT ![t] = NoPort]
                           /\ pc' = [pc EXCEPT ![t] = "discovered"]
                           /\ UNCHANGED idx
                      ELSE /\ idx' = [idx EXCEPT ![t] = @ + 1]
                           /\ UNCHANGED <<port, pc>>
                   /\ UNCHANGED <<UNITY_BASE_URL, ret, handler, printed, returned, verified>>
    /\ UNCHANGED <<UNITY_SERVER_PORT, op, url, attempts, health, cycles, entryURL, calls>>
    /\ waited' = [waited EXCEPT ![t] = 0]
    /\ UNCHANGED <<elapsed, payload, untouched>>

\* variant: the port number is not stored
StoredPortKept(t) == UNITY_SERVER_PORT

\* line 27: UNITY_SERVER_PORT = port, the candidate of the current iteration
StoredPort(t) == UNITY_DEFAULT_PORTS[idx[t]]

\* discover_server, lines 27-28: store the port number and return it
StorePort(t) ==
    /\ pc[t] = "store_port"
    /\ UNITY_SERVER_PORT' = StoredPort(t)
    /\ port' = [port EXCEPT ![t] = UNITY_DEFAULT_PORTS[idx[t]]]
    /\ pc' = [pc EXCEPT ![t] = "discovered"]
    /\ UNCHANGED <<UNITY_BASE_URL, op, url, idx, ret, handler, printed, attempts, probes,
                   health, cycles, entryURL, verified, returned, calls, payload, clock,
                   untouched>>

\* variant: the retry reuses the URL built when the dispatch was entered
RetryURLStale(t) == url[t]

\* line 217 (265): the URL of the retry is built from UNITY_BASE_URL again
RetryURL(t) == UNITY_BASE_URL

\* discover_server has returned port[t] to its caller: lines 215-217 and 226-234
\* (263-265, 274-282) of the dispatchers, lines 41-51 of ensure_server_connection,
\* or the caller of discover_server itself
Discovered(t) ==
    /\ pc[t] = "discovered"
    /\ IF op[t] = "discover_server"
       THEN /\ Finish(t, IF Found(port[t]) THEN PyInt(port[t]) ELSE PyNone, "none", <<>>)
            /\ UNCHANGED url
       ELSE IF op[t] = "ensure_server_connection"
       THEN /\ IF Found(port[t])
               THEN Finish(t, PyBool(TRUE), "ConnectionError", <<>>)
               ELSE Finish(t, PyBool(FALSE), "ConnectionError", <<"server_not_running_box">>)
            /\ UNCHANGED url
       ELSE IF Found(port[t]) /\ ~Encodes(stdout, "found_server")
            THEN \* line 216 raises inside the except clause
                 /\ Finish(t, PyNone, "ConnectionError", <<"found_server">>)
                 /\ UNCHANGED url
       ELSE IF Found(port[t])
            THEN /\ printed' = [printed EXCEPT ![t] = Append(@, "found_server")]
                 /\ url' = [url EXCEPT ![t] = RetryURL(t)]
                 /\ pc' = [pc EXCEPT ![t] = "retry"]
                 /\ UNCHANGED <<ret, handler, returned>>
            ELSE /\ Finish(t, FailureValue("ConnectionError"), "ConnectionError",
                           <<FailureMessage("ConnectionError")>>)
                 /\ UNCHANGED url
    /\ UNCHANGED <<globals, op, idx, port, attempts, probes, health, cycles, entryURL,
                   verified, calls, payload, clock, untouched>>

\* the retry of the dispatchers (lines 218-234, 266-282)
Retry(t, r) ==
    /\ pc[t] = "retry"
    /\ attempts' = [attempts EXCEPT ![t] = Append(@, Attempt(t, r))]
    /\ LET e == TryRaises(r)
       IN  IF e = "none"
           THEN /\ Finish(t, ParseJson(r.body), "none", <<"status", "json">>)
                /\ verified' = verified \cup {url[t]}
           ELSE IF Catch(RetryHandlers, e) = "propagate"
           THEN /\ Finish(t, Raised(e), "propagate", StatusLine(r))
                /\ UNCHANGED verified
           ELSE \* line 225 pass, then lines 226-234
                /\ Finish(t, FailureValue("ConnectionError"), "ConnectionError",
                          StatusLine(r) \o <<FailureMessage("ConnectionError")>>)
                /\ UNCHANGED verified
    /\ UNCHANGED <<globals, op, url, idx, port, probes, health, cycles, entryURL, calls>>
    /\ waited' = [waited EXCEPT ![t] = 0]
    /\ UNCHANGED <<elapsed, payload, untouched>>

(***************************************************************************)
(* The primitive template registry and create_primitive.                   *)
(***************************************************************************)
\* variant: any kind is taken as known
KnownKindAlways(table, kind) == TRUE

\* line 295: "primitive_type not in PRIMITIVES" is false
KnownKind(table, kind) == kind \in DOMAIN table

\* line 304: the kinds that never get a Rigidbody
NoPhysicsKinds == {"empty", "light", "camera", "canvas"}

\* variant: the Rigidbody is appended whenever physics is requested
ComponentsPhysicsForAll(table, kind, physics) ==
    table[kind] \o (IF physics THEN <<"Rigidbody">> ELSE <<>>)

\* lines 300-305: a copy of the template's list, with Rigidbody appended when
\* physics is requested for a kind outside NoPhysicsKinds
Components(table, kind, physics) ==
    table[kind] \o (IF physics /\ kind \notin NoPhysicsKinds THEN <<"Rigidbody">> ELSE <<>>)

\* variant: the list that is appended to is the registry's own
RegistryAliased(table, kind, physics) ==
    [table EXCEPT ![kind] = @ \o (IF physics /\ kind \notin NoPhysicsKinds
                                  THEN <<"Rigidbody">> ELSE <<>>)]

\* line 301: the list that is appended to is a copy, so the registry keeps its lists
RegistryAfter(table, kind, physics) == table

\* create_primitive (lines 291-333): the unknown kind returns None; a known kind
\* builds the data and enters send_post_request (lines 243-247)
CreatePrimitive(t, kind, physics) ==
    /\ pc[t] = "idle"
    /\ calls < MaxCalls
    /\ calls' = calls + 1
    /\ attempts' = [attempts EXCEPT ![t] = <<>>]
    /\ probes' = [probes EXCEPT ![t] = <<>>]
    /\ health' = [health EXCEPT ![t] = "none"]
    /\ port' = [port EXCEPT ![t] = NoPort]
    /\ cycles' = [cycles EXCEPT ![t] = 0]
    /\ entryURL' = [entryURL EXCEPT ![t] = <<UNITY_BASE_URL, UNITY_SERVER_PORT>>]
    /\ elapsed' = [elapsed EXCEPT ![t] = 0]
    /\ waited' = [waited EXCEPT ![t] = 0]
    /\ IF ~KnownKind(PRIMITIVES, kind)
       THEN \* lines 296-298
            /\ op' = [op EXCEPT ![t] = "create_primitive"]
            /\ payload' = [payload EXCEPT ![t] =
                              [by |-> "create_primitive", kind |-> kind, physics |-> physics,
                               path |-> "", components |-> <<>>]]
            /\ pc' = [pc EXCEPT ![t] = "idle"]
            /\ printed' = [printed EXCEPT ![t] =
                              Written(stdout, <<"unknown_primitive", "available_primitives">>)]
            /\ ret' = [ret EXCEPT ![t] =
                          IF PrintRaises(stdout, <<"unknown_primitive">>)
                          THEN Raised("UnicodeEncodeError") ELSE PyNone]
            /\ handler' = [handler EXCEPT ![t] =
                              IF PrintRaises(stdout, <<"unknown_primitive">>)
                              THEN "propagate" ELSE "none"]
            /\ UNCHANGED <<url, PRIMITIVES>>
       ELSE IF kind \notin DOMAIN PRIMITIVES
       THEN \* line 300 raises KeyError
            /\ op' = [op EXCEPT ![t] = "create_primitive"]
            /\ payload' = [payload EXCEPT ![t] =
                              [by |-> "create_primitive", kind |-> kind, physics |-> physics,
                               path |-> "", components |-> <<>>]]
            /\ pc' = [pc EXCEPT ![t] = "idle"]
            /\ printed' = [printed EXCEPT ![t] = <<>>]
            /\ ret' = [ret EXCEPT ![t] = Raised("KeyError")]
            /\ handler' = [handler EXCEPT ![t] = "propagate"]
            /\ UNCHANGED <<url, PRIMITIVES>>
       ELSE \* lines 300-333, then lines 246-247 of send_post_request
            /\ op' = [op EXCEPT ![t] = "send_post_request"]
            /\ payload' = [payload EXCEPT ![t] =
                              [by |-> "create_primitive", kind |-> kind, physics |-> physics,
                               path |-> "/unity/scene/create",
                               components |-> Components(PRIMITIVES, kind, physics)]]
            /\ PRIMITIVES' = RegistryAfter(PRIMITIVES, kind, physics)
            /\ printed' = [printed EXCEPT ![t] = <<"creating">>]
            /\ url' = [url EXCEPT ![t] = UNITY_BASE_URL]
            /\ pc' = [pc EXCEPT ![t] = "request"]
            /\ ret' = [ret EXCEPT ![t] = Pending]
            /\ handler' = [handler EXCEPT ![t] = "none"]
    /\ UNCHANGED <<globals, idx, verified, returned, stdout, server, colorInput, colorResult>>

Step(t) ==
    \/ \E o \in Operations : Call(t, o)
    \/ \E r \in Outcomes : Request(t, r)
    \/ \E r \in Outcomes : Health(t, r)
    \/ \E r \in Outcomes : Probe(t, r)
    \/ StorePort(t)
    \/ Discovered(t)
    \/ \E r \in Outcomes : Retry(t, r)

Next == \E t \in SingleCaller : Step(t)

Spec == Init /\ [][Next]_vars

(***************************************************************************)
(* Vocabulary of the properties.                                           *)
(***************************************************************************)
\* thread t is inside, or has returned from, a dispatch
InDispatch(t) == op[t] \in Dispatches
\* the dispatch of thread t has returned
DispatchDone(t) == InDispatch(t) /\ pc[t] = "idle"
\* the ensure_server_connection call of thread t has returned
EnsureDone(t) == op[t] = "ensure_server_connection" /\ pc[t] = "idle"
\* the discover_server call of thread t has returned
DiscoverDone(t) == op[t] = "discover_server" /\ pc[t] = "idle"
\* the probes discover_server sent during the operation of thread t
DiscoveryProbes(t) == SelectSeq(probes[t], LAMBDA e : e.by = "discover_server")
\* the globals are what they were when the operation of thread t was called
EndpointUnchanged(t) == <<UNITY_BASE_URL, UNITY_SERVER_PORT>> = entryURL[t]
\* an exception that is a connection failure / a timeout for the except clauses
IsConnectionFailure(e) == "ConnectionError" \in ExcClasses(e)
IsTimeout(e) == "Timeout" \in ExcClasses(e)
\* the message the operation of thread t printed last
LastPrinted(t) == IF printed[t] = <<>> THEN "nothing" ELSE printed[t][Len(printed[t])]

(***************************************************************************)
(* C1: a dispatch sends at most 2 request attempts and runs at most 1      *)
(* discovery cycle; a second attempt exists only after the first attempt   *)
(* failed with a connection failure and the discovery that followed found  *)
(* an endpoint; after the second attempt the dispatch has returned (no     *)
(* third attempt, no second discovery).                                    *)
(***************************************************************************)
C1_BoundedRetry ==
    \A t \in Threads : InDispatch(t) =>
        /\ Len(attempts[t]) <= 2
        /\ cycles[t] <= 1
        /\ Len(attempts[t]) = 2 =>
              /\ IsConnectionFailure(attempts[t][1].raised)
              /\ cycles[t] = 1
              /\ port[t] # NoPort
              /\ \E i \in 1..Len(DiscoveryProbes(t)) :
                    /\ DiscoveryProbes(t)[i].ok
                    /\ DiscoveryProbes(t)[i].port = port[t]
              /\ pc[t] = "idle"
              /\ ret[t] # Pending

\* a dispatch returned after its second attempt failed
C1_Witness ==
    \E t \in Threads :
        /\ DispatchDone(t)
        /\ Len(attempts[t]) = 2
        /\ attempts[t][2].raised # "none"
        /\ cycles[t] = 1

(***************************************************************************)
(* C2: discover_server probes 8080..8090 in ascending order, each at most  *)
(* once; it returns the port of the first probe answered with success and  *)
(* makes it the cached endpoint, probing nothing after the match; it       *)
(* returns None only after all 11 candidates were probed without success.  *)
(***************************************************************************)
C2_FirstMatchWins ==
    \A t \in Threads :
        LET dp == DiscoveryProbes(t)
        IN  /\ Len(dp) <= 11
            /\ \A i \in 1..Len(dp) : dp[i].port = 8080 + (i - 1)
            /\ \A i \in 1..(Len(dp) - 1) : ~dp[i].ok
            /\ DiscoverDone(t) =>
                  IF \E i \in 1..Len(dp) : dp[i].ok
                  THEN /\ ret[t] = PyInt(dp[Len(dp)].port)
                       /\ UNITY_BASE_URL = dp[Len(dp)].port
                       /\ UNITY_SERVER_PORT = dp[Len(dp)].port
                  ELSE /\ ret[t] = PyNone
                       /\ Len(dp) = 11
                       /\ EndpointUnchanged(t)

\* discover_server returned 8085 after the probes of 8080..8084 failed
C2_Witness ==
    \E t \in Threads :
        /\ DiscoverDone(t)
        /\ ret[t] = PyInt(8085)
        /\ Len(DiscoveryProbes(t)) = 6

(***************************************************************************)
(* C3 as claimed: a dispatch that ends in the terminal connection failure  *)
(* has performed exactly one rediscovery and exactly one retry (exactly 2  *)
(* request attempts).                                                      *)
(***************************************************************************)
C3_Original ==
    \A t \in Threads :
        (DispatchDone(t) /\ handler[t] = "ConnectionError") =>
            /\ cycles[t] = 1
            /\ Len(attempts[t]) = 2

(***************************************************************************)
(* C3 amended: a dispatch that ends in the terminal connection failure has *)
(* performed exactly one rediscovery; it has sent exactly one retry (2     *)
(* request attempts) when that rediscovery found an endpoint, and no retry *)
(* (1 request attempt, after 11 failed probes) when it found none.         *)
(***************************************************************************)
C3_RetryOnlyIfFound ==
    \A t \in Threads :
        (DispatchDone(t) /\ handler[t] = "ConnectionError") =>
            /\ cycles[t] = 1
            /\ Len(DiscoveryProbes(t)) >= 1
            /\ IsConnectionFailure(attempts[t][1].raised)
            /\ IF \E i \in 1..Len(DiscoveryProbes(t)) : DiscoveryProbes(t)[i].ok
               THEN Len(attempts[t]) = 2 /\ attempts[t][2].raised # "none"
               ELSE Len(attempts[t]) = 1 /\ Len(DiscoveryProbes(t)) = 11

\* terminal failure after a rediscovery that found a port and a retry that failed
C3_Witness ==
    \E t \in Threads :
        /\ DispatchDone(t)
        /\ handler[t] = "ConnectionError"
        /\ Len(attempts[t]) = 2
        /\ \E i \in 1..Len(DiscoveryProbes(t)) : DiscoveryProbes(t)[i].ok

(***************************************************************************)
(* C4: a dispatch whose first attempt times out reports the timeout        *)
(* failure, sends no discovery probe and no retry (1 request attempt) and  *)
(* leaves the cached endpoint unchanged.                                   *)
(***************************************************************************)
C4_TimeoutNoRediscovery ==
    \A t \in Threads :
        (InDispatch(t) /\ Len(attempts[t]) >= 1 /\ IsTimeout(attempts[t][1].raised)) =>
            /\ pc[t] = "idle"
            /\ handler[t] = "Timeout"
            /\ LastPrinted(t) = "request_timeout_box"
            /\ ret[t] = PyNone
            /\ Len(attempts[t]) = 1
            /\ probes[t] = <<>>
            /\ cycles[t] = 0
            /\ EndpointUnchanged(t)

\* a dispatch returned after its first attempt timed out while connecting
C4_Witness ==
    \E t \in Threads :
        /\ DispatchDone(t)
        /\ Len(attempts[t]) = 1
        /\ attempts[t][1].raised = "ConnectTimeout"

(***************************************************************************)
(* C5: a dispatch whose first attempt receives a body that is not JSON     *)
(* reports the malformed-response failure, sends no retry (1 request       *)
(* attempt) and no discovery probe, and leaves the cached endpoint         *)
(* unchanged.                                                              *)
(***************************************************************************)
C5_MalformedNoRetry ==
    \A t \in Threads :
        (InDispatch(t) /\ Len(attempts[t]) >= 1
                       /\ attempts[t][1].raised = "JSONDecodeError") =>
            /\ pc[t] = "idle"
            /\ handler[t] = "JSONDecodeError"
            /\ LastPrinted(t) = "not_json"
            /\ ret[t] = PyNone
            /\ Len(attempts[t]) = 1
            /\ probes[t] = <<>>
            /\ cycles[t] = 0
            /\ EndpointUnchanged(t)

\* a dispatch returned after its first attempt received a non-JSON body
C5_Witness ==
    \E t \in Threads :
        /\ DispatchDone(t)
        /\ Len(attempts[t]) = 1
        /\ attempts[t][1].raised = "JSONDecodeError"
        /\ printed[t] = <<"status", "not_json">>

(***************************************************************************)
(* C6 as claimed: the value a failed dispatch returns tells the failure    *)
(* kind: two dispatches that failed with different kinds never returned    *)
(* the same value.                                                         *)
(***************************************************************************)
C6_Original ==
    \A a \in returned : \A b \in returned : a[1] # b[1] => a[2] # b[2]

(***************************************************************************)
(* C7 as claimed: every command request is sent to a port that had         *)
(* answered a probe or a request successfully before the request was sent. *)
(***************************************************************************)
C7_Original ==
    \A t \in Threads : \A i \in 1..Len(attempts[t]) : attempts[t][i].known

(***************************************************************************)
(* C8: whatever the transport outcome of the first attempt, of the         *)
(* rediscovery probes and of the retry, a dispatch returns a document or   *)
(* the failure value; no exception leaves the dispatcher, and a dispatch  *)
(* that has not returned always has a next step to take.                   *)
(***************************************************************************)
C8_NeverRaises ==
    \A t \in Threads : InDispatch(t) =>
        /\ handler[t] # "propagate"
        /\ ret[t][1] # "raised"
        /\ pc[t] = "idle" => ret[t][1] \in {"None", "json"}
        /\ pc[t] # "idle" => ret[t] = Pending /\ ENABLED Step(t)

\* dispatches returned after an exception that is neither a connection
\* failure, a timeout nor a decoding error, on the first attempt and on the retry
C8_Witness ==
    \E t \in Threads :
        /\ DispatchDone(t)
        /\ Len(attempts[t]) = 2
        /\ attempts[t][2].raised = "ChunkedEncodingError"
        /\ ret[t] = PyNone
        /\ <<"Exception", PyNone>> \in returned

(***************************************************************************)
(* C9: when the cached endpoint answers the health request,                *)
(* ensure_server_connection returns True after exactly 1 probe, none of    *)
(* them a discovery probe, and leaves the cached endpoint unchanged.       *)
(***************************************************************************)
C9_EnsureFastPath ==
    \A t \in Threads :
        (op[t] = "ensure_server_connection" /\ health[t] = "answered") =>
            /\ pc[t] = "idle"
            /\ ret[t] = PyBool(TRUE)
            /\ Len(probes[t]) = 1
            /\ probes[t][1].port = entryURL[t][1]
            /\ DiscoveryProbes(t) = <<>>
            /\ cycles[t] = 0
            /\ EndpointUnchanged(t)

\* ensure_server_connection returned after the endpoint answered with a status other than 200
C9_Witness ==
    \E t \in Threads :
        /\ EnsureDone(t)
        /\ health[t] = "answered"
        /\ ~probes[t][1].ok
        /\ UNITY_BASE_URL # DefaultPort

(***************************************************************************)
(* C10 as claimed: whenever the health request fails, by connection        *)
(* failure or by timeout, ensure_server_connection runs discover_server    *)
(* and returns True iff it found an endpoint; it returns False only when   *)
(* no candidate port answered.                                             *)
(***************************************************************************)
C10_Original ==
    \A t \in Threads :
        (EnsureDone(t) /\ (IsConnectionFailure(health[t]) \/ IsTimeout(health[t]))) =>
            /\ cycles[t] = 1
            /\ ret[t] = PyBool(\E i \in 1..Len(DiscoveryProbes(t)) : DiscoveryProbes(t)[i].ok)
            /\ ret[t] = PyBool(FALSE) => Len(DiscoveryProbes(t)) = 11

(***************************************************************************)
(* C10 amended: when the health request fails with a connection failure    *)
(* (refused, or timed out while connecting), ensure_server_connection runs *)
(* discover_server once and returns True iff it found an endpoint, False   *)
(* after 11 failed probes; when the health request times out waiting for   *)
(* the response it returns False without any discovery probe.              *)
(***************************************************************************)
C10_FallbackOnConnectionFailure ==
    \A t \in Threads : EnsureDone(t) =>
        /\ IsConnectionFailure(health[t]) =>
              /\ cycles[t] = 1
              /\ ret[t] = PyBool(\E i \in 1..Len(DiscoveryProbes(t)) : DiscoveryProbes(t)[i].ok)
              /\ ret[t] = PyBool(FALSE) => Len(DiscoveryProbes(t)) = 11
        /\ (IsTimeout(health[t]) /\ ~IsConnectionFailure(health[t])) =>
              /\ ret[t] = PyBool(FALSE)
              /\ DiscoveryProbes(t) = <<>>
              /\ cycles[t] = 0
              /\ EndpointUnchanged(t)

\* ensure_server_connection returned True from a discovery run after a connect timeout
C10_Witness ==
    \E t \in Threads :
        /\ EnsureDone(t)
        /\ health[t] = "ConnectTimeout"
        /\ ret[t] = PyBool(TRUE)
        /\ Len(DiscoveryProbes(t)) >= 2

(***************************************************************************)
(* The bridge in a process whose stdout may be unable to encode the        *)
(* messages (output redirected under a legacy code page).                  *)
(***************************************************************************)
InitReport ==
    /\ ModuleLoaded
    /\ stdout \in Encodings

SpecReport == InitReport /\ [][Next]_vars

\* the last command request the operation of thread t sent
LastAttempt(t) == attempts[t][Len(attempts[t])]

\* the result the transport outcomes of a dispatch call for: the parsed
\* document of the response that was received, the failure value otherwise
TransportResult(t) ==
    IF LastAttempt(t).raised = "none" THEN ParseJson(LastAttempt(t).body) ELSE PyNone

(***************************************************************************)
(* C11 as claimed: the value a dispatch returns depends only on the        *)
(* transport outcome, also when printing the status line or the payload    *)
(* fails: a response that parses is returned as the parsed document.       *)
(***************************************************************************)
C11_Original ==
    \A t \in Threads : DispatchDone(t) => ret[t] = TransportResult(t)

(***************************************************************************)
(* Two threads of the host program dispatch commands concurrently.  The    *)
(* code takes no lock: the steps of the two threads interleave at every    *)
(* HTTP call and between the two assignments of discover_server.  The      *)
(* server either refuses the connection or answers 200 with a document.    *)
(***************************************************************************)
ThreadOutcomes == {ExcOutcome("ConnectionError"), RespOutcome(200, "[]")}

ThreadStep(t) ==
    \/ \E o \in Dispatches : calls < MaxThreadCalls /\ Call(t, o)
    \/ \E r \in ThreadOutcomes : Request(t, r)
    \/ \E r \in ThreadOutcomes : Probe(t, r)
    \/ StorePort(t)
    \/ Discovered(t)
    \/ \E r \in ThreadOutcomes : Retry(t, r)

NextThreads == \E t \in Threads : ThreadStep(t)

SpecThreads == Init /\ [][NextThreads]_vars

\* the base URL and the port number a thread found when it entered its
\* operation name the same port
ObservedConsistent(t) == entryURL[t][1] = entryURL[t][2]

\* the retry of thread t went to the port its own discover_server call returned
RetryToDiscoveredPort(t) ==
    (InDispatch(t) /\ Len(attempts[t]) = 2) => attempts[t][2].port = port[t]

(***************************************************************************)
(* C12 as claimed: under any interleaving of two threads, no thread reads  *)
(* the endpoint while another thread is part-way through replacing it (the *)
(* base URL and the port it reads name the same port), and the retry a     *)
(* thread sends after its own discovery goes to the port that discovery    *)
(* returned.                                                               *)
(***************************************************************************)
C12_Original ==
    \A t \in Threads : ObservedConsistent(t) /\ RetryToDiscoveredPort(t)

\* the first half of C12 alone
C12_ObservedConsistent == \A t \in Threads : ObservedConsistent(t)

\* the second half of C12 alone
C12_RetryToDiscoveredPort == \A t \in Threads : RetryToDiscoveredPort(t)

(***************************************************************************)
(* The bridge with the time its HTTP calls take.  Time is counted in half  *)
(* seconds.  A call in progress may take any time up to its timeout        *)
(* argument; it ends with a timeout exception only once that time is up.   *)
(***************************************************************************)
\* the timeout argument of the HTTP call thread t is blocked in
CallTimeout(t) ==
    CASE pc[t] = "probe"  -> ProbeTimeout
      [] pc[t] = "health" -> HealthTimeout
      [] OTHER            -> IF op[t] = "send_get_request" THEN GetTimeout ELSE PostTimeout

\* half a second passes while thread t is blocked in an HTTP call
Wait(t) ==
    /\ pc[t] \in {"request", "retry", "probe", "health"}
    /\ waited[t] < CallTimeout(t)
    /\ waited' = [waited EXCEPT ![t] = @ + 1]
    /\ elapsed' = [elapsed EXCEPT ![t] = @ + 1]
    /\ UNCHANGED <<globals, pc, op, url, idx, port, ret, handler, printed, attempts, probes,
                   health, cycles, entryURL, verified, returned, calls, payload, untouched>>

\* the call of thread t can end with outcome r now
Punctual(t, r) ==
    (r.kind = "exc" /\ "Timeout" \in ExcClasses(r.exc)) => waited[t] = CallTimeout(t)

TimedStep(t) ==
    \/ \E o \in Operations : calls < MaxTimedCalls /\ Call(t, o)
    \/ Wait(t)
    \/ \E r \in Outcomes : Punctual(t, r) /\ Request(t, r)
    \/ \E r \in Outcomes : Punctual(t, r) /\ Health(t, r)
    \/ \E r \in Outcomes : Punctual(t, r) /\ Probe(t, r)
    \/ StorePort(t)
    \/ Discovered(t)
    \/ \E r \in Outcomes : Punctual(t, r) /\ Retry(t, r)

NextTime == \E t \in SingleCaller : TimedStep(t)

SpecTime == Init /\ [][NextTime]_vars

\* the timeout configured for the class of the dispatch of thread t
ClassTimeout(t) == IF op[t] = "send_get_request" THEN GetTimeout ELSE PostTimeout

(***************************************************************************)
(* C13 as claimed: a dispatch blocks its caller for at most the timeout of *)
(* its class (5 s for a GET, 10 s for a POST), counting the first attempt, *)
(* the rediscovery probes and the retry.                                   *)
(***************************************************************************)
C13_Original ==
    \A t \in Threads : InDispatch(t) => elapsed[t] <= ClassTimeout(t)

\* the dispatch of thread t returned after a response whose body parsed
DispatchSucceeded(t) ==
    DispatchDone(t) /\ handler[t] = "none" /\ LastAttempt(t).raised = "none"

\* the document and the status code the caller finds in a returned value v:
\* a value that pairs a document with a status is <<"result", document, status>>
DocumentIn(v) == IF v[1] = "result" THEN v[2] ELSE v
StatusIn(v) == IF v[1] = "result" THEN v[3] ELSE 0

(***************************************************************************)
(* C14 as claimed: on a successful dispatch the caller receives the parsed *)
(* document as the server sent it, together with the numeric status code   *)
(* of the response.                                                        *)
(***************************************************************************)
C14_Original ==
    \A t \in Threads : DispatchSucceeded(t) =>
        /\ DocumentIn(ret[t]) = ParseJson(LastAttempt(t).body)
        /\ StatusIn(ret[t]) = LastAttempt(t).status

\* the half of C14 about the document alone
C14_DocumentAsSent ==
    \A t \in Threads : DispatchSucceeded(t) =>
        DocumentIn(ret[t]) = ParseJson(LastAttempt(t).body)

(***************************************************************************)
(* create_primitive called with every kind of the registry, with a kind    *)
(* the registry does not hold, and with either value of the physics flag;  *)
(* the server refuses the connection or answers 200 with a document.       *)
(***************************************************************************)
KindInputs == DOMAIN PrimitiveTemplates \cup {"teapot"}

PrimitiveOutcomes == {ExcOutcome("ConnectionError"), RespOutcome(200, "{\"success\":true}")}

PrimitiveStep(t) ==
    \/ \E kind \in KindInputs : \E physics \in BOOLEAN : CreatePrimitive(t, kind, physics)
    \/ \E r \in PrimitiveOutcomes : Request(t, r)
    \/ \E r \in PrimitiveOutcomes : Probe(t, r)
    \/ StorePort(t)
    \/ Discovered(t)
    \/ \E r \in PrimitiveOutcomes : Retry(t, r)

NextPrimitives == \E t \in SingleCaller : PrimitiveStep(t)

SpecPrimitives == Init /\ [][NextPrimitives]_vars

\* thread t is inside, or has returned from, a create_primitive call
InCreatePrimitive(t) == payload[t].by = "create_primitive"

(***************************************************************************)
(* C15: for every kind of the registry and either value of the physics     *)
(* flag, the component list create_primitive sends is the template's list  *)
(* in template order, followed by exactly one Rigidbody iff physics is     *)
(* requested and the kind is none of empty, light, camera, canvas; empty   *)
(* with physics sends the empty list, cube with physics the cube list and  *)
(* one Rigidbody.                                                          *)
(***************************************************************************)
C15_Components ==
    \A t \in Threads :
        (InCreatePrimitive(t) /\ payload[t].kind \in DOMAIN PrimitiveTemplates) =>
            LET kind == payload[t].kind
                sent == payload[t].components
                template == PrimitiveTemplates[kind]
                rigid == payload[t].physics
                         /\ kind \notin {"empty", "light", "camera", "canvas"}
            IN  /\ op[t] = "send_post_request"
                /\ payload[t].path = "/unity/scene/create"
                /\ sent = IF rigid THEN Append(template, "Rigidbody") ELSE template
                /\ Cardinality({i \in 1..Len(sent) : sent[i] = "Rigidbody"})
                      = IF rigid THEN 1 ELSE 0
                /\ (kind = "empty" /\ payload[t].physics) => sent = <<>>
                /\ (kind = "cube" /\ payload[t].physics) =>
                      sent = <<"MeshFilter", "MeshRenderer", "BoxCollider", "Rigidbody">>

\* the request of create_primitive("empty", physics) was sent with its empty
\* list, after the one of create_primitive("cube", physics)
C15_Witness ==
    \E t \in Threads :
        /\ InCreatePrimitive(t)
        /\ payload[t].kind = "empty"
        /\ payload[t].physics
        /\ payload[t].components = <<>>
        /\ Len(attempts[t]) >= 1
        /\ calls >= 2

(***************************************************************************)
(* C16: create_primitive with a kind the registry does not hold returns    *)
(* None without raising, sends no request and no probe, and leaves the     *)
(* cached endpoint and the registry unchanged.                             *)
(***************************************************************************)
C16_UnknownKind ==
    \A t \in Threads :
        (InCreatePrimitive(t) /\ payload[t].kind \notin DOMAIN PrimitiveTemplates) =>
            /\ pc[t] = "idle"
            /\ ret[t] = PyNone
            /\ attempts[t] = <<>>
            /\ probes[t] = <<>>
            /\ cycles[t] = 0
            /\ EndpointUnchanged(t)
            /\ PRIMITIVES = PrimitiveTemplates
            /\ LastPrinted(t) = "available_primitives"

\* create_primitive("teapot") returned after an earlier creation had moved the endpoint
C16_Witness ==
    \E t \in Threads :
        /\ InCreatePrimitive(t)
        /\ payload[t].kind = "teapot"
        /\ pc[t] = "idle"
        /\ UNITY_BASE_URL # DefaultPort

(***************************************************************************)
(* parse_color.  A Python string is the sequence of its characters; a      *)
(* number is the fraction <<numerator, denominator>> in lowest terms, so   *)
(* that 1, 1.0 and 255/255.0 are one value.                                *)
(***************************************************************************)
RECURSIVE GCD(_, _)
GCD(a, b) == IF b = 0 THEN a ELSE GCD(b, a % b)

Abs(n) == IF n < 0 THEN 0 - n ELSE n

\* the number n/d, d > 0
Frac(n, d) == <<n \div GCD(Abs(n), d), d \div GCD(Abs(n), d)>>

PyStr(chars) == <<"str", chars>>

PyTuple(r, g, b) == <<"tuple", r, g, b>>

Letters == <<"a", "b", "c", "d", "e", "f", "g", "h", "i", "j", "k", "l", "m", "n", "o", "p", "q", "r", "s", "t", "u", "v", "w", "x", "y", "z">>

Capitals == <<"A", "B", "C", "D", "E", "F", "G", "H", "I", "J", "K", "L", "M", "N", "O", "P", "Q", "R", "S", "T", "U", "V", "W", "X", "Y", "Z">>

\* str.lower() on one character
LowerChar(c) ==
    IF \E i \in 1..Len(Capitals) : Capitals[i] = c
    THEN Letters[CHOOSE i \in 1..Len(Capitals) : Capitals[i] = c]
    ELSE c

\* str.lower()
Lower(chars) == [i \in 1..Len(chars) |-> LowerChar(chars[i])]

Whitespace == {" ", "\t", "\n"}

RECURSIVE LStrip(_)
LStrip(chars) ==
    IF chars # <<>> /\ chars[1] \in Whitespace THEN LStrip(Tail(chars)) ELSE chars

RECURSIVE RStrip(_)
RStrip(chars) ==
    IF chars # <<>> /\ chars[Len(chars)] \in Whitespace
    THEN RStrip(SubSeq(chars, 1, Len(chars) - 1))
    ELSE chars

\* str.strip()
Strip(chars) == RStrip(LStrip(chars))

\* the digits int(x, 16) accepts, each at the index of its value plus one
Digits16 == <<"0", "1", "2", "3", "4", "5", "6", "7", "8", "9", "a", "b", "c", "d", "e", "f">>

IsHexDigit(c) == \E i \in 1..Len(Digits16) : Digits16[i] = LowerChar(c)

HexValue(c) == (CHOOSE i \in 1..Len(Digits16) : Digits16[i] = LowerChar(c)) - 1

RECURSIVE HexNumber(_)
HexNumber(digits) ==
    IF digits = <<>> THEN 0
    ELSE Len(Digits16) * HexNumber(SubSeq(digits, 1, Len(digits) - 1))
           + HexValue(digits[Len(digits)])

ValueError == <<"ValueError">>

\* int(x, 16) for x of at most two characters: surrounding whitespace is dropped
\* and one sign is accepted before the digits; a prefix 0x or an underscore
\* needs three characters to be valid
IntBase16(x) ==
    LET body == Strip(x)
        signed == body # <<>> /\ body[1] \in {"+", "-"}
        digits == IF signed THEN Tail(body) ELSE body
    IN  IF digits = <<>> \/ \E i \in 1..Len(digits) : ~IsHexDigit(digits[i])
        THEN ValueError
        ELSE IF signed /\ body[1] = "-"
             THEN <<"int", 0 - HexNumber(digits)>>
             ELSE <<"int", HexNumber(digits)>>

\* lines 160-162, 170-172: the divisor 255.0
ByteMax == 255

\* lines 160-162: int(...) / 255.0
Channel(byte) == Frac(byte, ByteMax)

\* variant: the three groups overlap
GroupsOverlapping(color_str) ==
    <<SubSeq(color_str, 1, 2), SubSeq(color_str, 2, 3), SubSeq(color_str, 3, 4)>>

\* lines 160-162: color_str[0:2], color_str[2:4], color_str[4:6]
Groups(color_str) ==
    <<SubSeq(color_str, 1, 2), SubSeq(color_str, 3, 4), SubSeq(color_str, 5, 6)>>

\* variant: the shorthand digit is read on its own
ShorthandSingle(color_str) ==
    <<<<color_str[1]>>, <<color_str[2]>>, <<color_str[3]>>>>

\* lines 170-172: color_str[0] * 2, color_str[1] * 2, color_str[2] * 2
Shorthand(color_str) ==
    <<<<color_str[1], color_str[1]>>, <<color_str[2], color_str[2]>>,
      <<color_str[3], color_str[3]>>>>

\* the try blocks of lines 159-165 and 169-175: the triple, or ValueError
\* from the first int() that raises
HexTriple(groups) ==
    IF \E i \in 1..3 : IntBase16(groups[i]) = ValueError
    THEN ValueError
    ELSE PyTuple(Channel(IntBase16(groups[1])[2]), Channel(IntBase16(groups[2])[2]),
                 Channel(IntBase16(groups[3])[2]))

\* the dict literal of lines 110-132
ColorPresetsFirst ==
    << <<<<"w", "h", "i", "t", "e">>, <<<<1, 1>>, <<1, 1>>, <<1, 1>>>>>>,
       <<<<"b", "l", "a", "c", "k">>, <<<<0, 1>>, <<0, 1>>, <<0, 1>>>>>>,
       <<<<"r", "e", "d">>, <<<<1, 1>>, <<0, 1>>, <<0, 1>>>>>>,
       <<<<"g", "r", "e", "e", "n">>, <<<<0, 1>>, <<1, 1>>, <<0, 1>>>>>>,
       <<<<"b", "l", "u", "e">>, <<<<0, 1>>, <<0, 1>>, <<1, 1>>>>>>,
       <<<<"y", "e", "l", "l", "o", "w">>, <<<<1, 1>>, <<1, 1>>, <<0, 1>>>>>>,
       <<<<"c", "y", "a", "n">>, <<<<0, 1>>, <<1, 1>>, <<1, 1>>>>>>,
       <<<<"m", "a", "g", "e", "n", "t", "a">>, <<<<1, 1>>, <<0, 1>>, <<1, 1>>>>>>,
       <<<<"g", "r", "a", "y">>, <<<<1, 2>>, <<1, 2>>, <<1, 2>>>>>>,
       <<<<"g", "r", "e", "y">>, <<<<1, 2>>, <<1, 2>>, <<1, 2>>>>>>,
       <<<<"o", "r", "a", "n", "g", "e">>, <<<<1, 1>>, <<1, 2>>, <<0, 1>>>>>>,
       <<<<"p", "u", "r", "p", "l", "e">>, <<<<1, 2>>, <<0, 1>>, <<1, 1>>>>>>,
       <<<<"p", "i", "n", "k">>, <<<<1, 1>>, <<3, 4>>, <<4, 5>>>>>>,
       <<<<"b", "r", "o", "w", "n">>, <<<<3, 5>>, <<3, 10>>, <<0, 1>>>>>>,
       <<<<"l", "i", "m", "e">>, <<<<1, 2>>, <<1, 1>>, <<0, 1>>>>>>,
       <<<<"n", "a", "v", "y">>, <<<<0, 1>>, <<0, 1>>, <<1, 2>>>>>>,
       <<<<"t", "e", "a", "l">>, <<<<0, 1>>, <<1, 2>>, <<1, 2>>>>>>,
       <<<<"m", "a", "r", "o", "o", "n">>, <<<<1, 2>>, <<0, 1>>, <<0, 1>>>>>>,
       <<<<"o", "l", "i", "v", "e">>, <<<<1, 2>>, <<1, 2>>, <<0, 1>>>>>>,
       <<<<"s", "i", "l", "v", "e", "r">>, <<<<3, 4>>, <<3, 4>>, <<3, 4>>>>>>,
       <<<<"g", "o", "l", "d">>, <<<<1, 1>>, <<21, 25>>, <<0, 1>>>>>> >>

\* the dict literal of lines 682-695
ColorPresetsSecond ==
    << <<<<"w", "h", "i", "t", "e">>, <<<<1, 1>>, <<1, 1>>, <<1, 1>>>>>>,
       <<<<"b", "l", "a", "c", "k">>, <<<<0, 1>>, <<0, 1>>, <<0, 1>>>>>>,
       <<<<"r", "e", "d">>, <<<<1, 1>>, <<0, 1>>, <<0, 1>>>>>>,
       <<<<"g", "r", "e", "e", "n">>, <<<<0, 1>>, <<1, 1>>, <<0, 1>>>>>>,
       <<<<"b", "l", "u", "e">>, <<<<0, 1>>, <<0, 1>>, <<1, 1>>>>>>,
       <<<<"y", "e", "l", "l", "o", "w">>, <<<<1, 1>>, <<1, 1>>, <<0, 1>>>>>>,
       <<<<"c", "y", "a", "n">>, <<<<0, 1>>, <<1, 1>>, <<1, 1>>>>>>,
       <<<<"m", "a", "g", "e", "n", "t", "a">>, <<<<1, 1>>, <<0, 1>>, <<1, 1>>>>>>,
       <<<<"g", "r", "a", "y">>, <<<<1, 2>>, <<1, 2>>, <<1, 2>>>>>>,
       <<<<"g", "r", "e", "y">>, <<<<1, 2>>, <<1, 2>>, <<1, 2>>>>>>,
       <<<<"o", "r", "a", "n", "g", "e">>, <<<<1, 1>>, <<1, 2>>, <<0, 1>>>>>>,
       <<<<"p", "u", "r", "p", "l", "e">>, <<<<1, 2>>, <<0, 1>>, <<1, 1>>>>>> >>

\* the module assigns COLOR_PRESETS at line 110 and again at line 682; parse_color
\* reads the global when it is called (lines 186-187), after the import has run both
COLOR_PRESETS == ColorPresetsSecond

PresetKeys(table) == {table[i][1] : i \in 1..Len(table)}

PresetValue(table, key) ==
    LET entry == table[CHOOSE i \in 1..Len(table) : table[i][1] = key]
    IN  PyTuple(entry[2][1], entry[2][2], entry[2][3])

\* variant: the name is looked up as typed
LookupKeyAsTyped(color_str) == color_str

\* lines 186-187: color_str.lower()
LookupKey(color_str) == Lower(color_str)

\* an element of a tuple, list or dict argument that is a float; PyInt is an int
PyFloat(x) == <<"float", x>>

\* a dict argument with the given keys and values
PyDict(items) == <<"dict", items>>

\* a tuple or list argument
PySeq(type, elements) == <<"seq", type, elements>>

\* variant: the element is returned as it was given
FloatAsGiven(x) == x

\* float(x) for an int, a float, or a string that is no number
Float(x) ==
    CASE x[1] = "int" -> PyFloat(<<x[2], 1>>)
      [] x[1] = "float" -> x
      [] OTHER -> ValueError

\* lines 148-149: color_input.get(key, 0)
DictGet(items, key) == IF key \in DOMAIN items THEN items[key] ELSE PyInt(0)

\* parse_color (lines 134-189)
parse_color(color_input) ==
    CASE color_input = PyNone -> PyNone
      [] color_input[1] = "dict" ->
            PyTuple(DictGet(color_input[2], "r"), DictGet(color_input[2], "g"),
                    DictGet(color_input[2], "b"))
      [] color_input[1] = "seq" ->
            LET elements == color_input[3]
            IN  IF Len(elements) < 3 THEN PyNone
                ELSE IF \E i \in 1..3 : Float(elements[i]) = ValueError
                THEN Raised("ValueError")
                ELSE PyTuple(Float(elements[1]), Float(elements[2]), Float(elements[3]))
      [] color_input[1] \in {"int", "bool"} -> PyNone
      [] color_input[1] = "str" ->
            LET stripped == Strip(color_input[2])
                color_str == IF stripped # <<>> /\ stripped[1] = "#"
                             THEN Tail(stripped) ELSE stripped
            IN  IF Len(color_str) = 6 /\ HexTriple(Groups(color_str)) # ValueError
                THEN HexTriple(Groups(color_str))
                ELSE IF Len(color_str) = 3 /\ HexTriple(Shorthand(color_str)) # ValueError
                THEN HexTriple(Shorthand(color_str))
                ELSE IF LookupKey(color_str) \in PresetKeys(COLOR_PRESETS)
                THEN PresetValue(COLOR_PRESETS, LookupKey(color_str))
                ELSE PyNone

(***************************************************************************)
(* parse_color applied to strings of six and of three hexadecimal digits,  *)
(* to the names of the colour tables in every capitalisation, and to       *)
(* strings that are none of these.                                         *)
(***************************************************************************)
AllHexDigits == {Digits16[i] : i \in 1..Len(Digits16)} \cup {"A", "B", "C", "D", "E", "F"}

AllPairs == {<<a, b>> : a \in AllHexDigits, b \in AllHexDigits}

SamplePairs == {<<"0", "0">>, <<"F", "F">>}

\* six digits: one group ranges over all pairs of digits, the two others over the samples
SixDigitInputs ==
    {p \o q \o r : p \in AllPairs, q \in SamplePairs, r \in SamplePairs}
    \cup {q \o p \o r : p \in AllPairs, q \in SamplePairs, r \in SamplePairs}
    \cup {q \o r \o p : p \in AllPairs, q \in SamplePairs, r \in SamplePairs}

SampleDigits == {"0", "8", "a", "F"}

\* three digits: one ranges over all digits, the two others over the samples
ThreeDigitInputs ==
    {<<a, b, c>> : a \in AllHexDigits, b \in SampleDigits, c \in SampleDigits}
    \cup {<<b, a, c>> : a \in AllHexDigits, b \in SampleDigits, c \in SampleDigits}
    \cup {<<b, c, a>> : a \in AllHexDigits, b \in SampleDigits, c \in SampleDigits}

\* str.upper() on one character
UpperChar(c) ==
    IF \E i \in 1..Len(Letters) : Letters[i] = c
    THEN Capitals[CHOOSE i \in 1..Len(Letters) : Letters[i] = c]
    ELSE c

\* every upper/lower-case spelling of a lower-case word
Spellings(word) ==
    {[i \in 1..Len(word) |-> IF i \in upper THEN UpperChar(word[i]) ELSE word[i]] :
        upper \in SUBSET (1..Len(word))}

NameInputs == UNION {Spellings(name) : name \in PresetKeys(ColorPresetsFirst)}

OtherInputs ==
    {<<>>, <<"g", "g", "g">>, <<"+", "f", "-", "f", " ", "0">>, <<"-", "+", "0">>,
     <<"t", "e", "a", "p", "o", "t">>, <<" ", "r", "e", "d", " ">>,
     <<" ", "#", "f", "F", "0", "0", "8", "0", "\n">>,
     <<"n", "o", "t", "a", "c", "o", "l", "o", "r">>, <<"g", "g", "g", "g", "g", "g">>,
     <<"f", "f", " ", "0", " ", "0">>, <<"-", "1", "-", "1", "-", "1">>}

\* the elements of tuple and list arguments, and the values of dict arguments
Elements == {PyInt(0), PyInt(2), PyInt(0 - 1), PyFloat(<<1, 2>>), PyStr(<<"a">>)}

\* tuples and lists of up to four elements
SeqInputs ==
    {PySeq(type, elements) :
        type \in {"tuple", "list"}, elements \in UNION {[1..n -> Elements] : n \in 0..4}}

DictKeys == {"r", "g", "b", "a"}

\* dicts holding any of the keys
DictInputs == {PyDict(items) : items \in UNION {[keys -> Elements] : keys \in SUBSET DictKeys}}

ColorInputs ==
    {PyStr(chars) : chars \in SixDigitInputs \cup ThreeDigitInputs
                              \cup NameInputs \cup OtherInputs}
    \cup {PyStr(<<"#">> \o chars) : chars \in SixDigitInputs \cup ThreeDigitInputs
                                            \cup NameInputs}
    \cup SeqInputs \cup DictInputs \cup {PyNone, PyInt(2), PyBool(TRUE)}

InitColor ==
    /\ Imported
    /\ server = NoPort
    /\ stdout = "utf-8"
    /\ colorInput \in ColorInputs
    /\ colorResult = Pending

\* the call parse_color(colorInput) returns
ParseColor ==
    /\ colorResult = Pending
    /\ colorResult' = parse_color(colorInput)
    /\ UNCHANGED <<UNITY_BASE_URL, UNITY_SERVER_PORT, pc, op, url, idx, port, ret, handler,
                   printed, attempts, probes, health, cycles, entryURL, verified, returned,
                   calls, payload, stdout, PRIMITIVES, elapsed, waited, server, colorInput>>

NextColor == ParseColor

SpecColor == InitColor /\ [][NextColor]_vars

\* parse_color has returned for the string chars
Parsed(chars) == colorInput = PyStr(chars) /\ colorResult # Pending

\* chars is n hexadecimal digits, with or without one leading '#'
HexString(chars, n) ==
    LET digits == IF chars # <<>> /\ chars[1] = "#" THEN Tail(chars) ELSE chars
    IN  Len(digits) = n /\ \A i \in 1..n : digits[i] \in AllHexDigits

DigitsOf(chars) == IF chars # <<>> /\ chars[1] = "#" THEN Tail(chars) ELSE chars

\* the two-digit group d1 d2 read as a base-16 number
ByteOf(d1, d2) == 16 * HexValue(d1) + HexValue(d2)

\* str.upper()
Upper(chars) == [i \in 1..Len(chars) |-> UpperChar(chars[i])]

(***************************************************************************)
(* C17: for every string of exactly 6 hexadecimal digits, with or without  *)
(* one leading '#', parse_color returns (byte1/255, byte2/255, byte3/255), *)
(* the bytes being the three two-digit groups read in base 16 in order;    *)
(* upper- and lower-case digits give the same result.                      *)
(***************************************************************************)
C17_SixDigits ==
    (colorInput[1] = "str" /\ colorResult # Pending /\ HexString(colorInput[2], 6)) =>
        LET d == DigitsOf(colorInput[2])
        IN  /\ colorResult = PyTuple(Frac(ByteOf(d[1], d[2]), 255),
                                     Frac(ByteOf(d[3], d[4]), 255),
                                     Frac(ByteOf(d[5], d[6]), 255))
            /\ colorResult = parse_color(PyStr(Lower(colorInput[2])))
            /\ colorResult = parse_color(PyStr(Upper(colorInput[2])))

\* parse_color("#FF8000") returned (1, 128/255, 0)
C17_Witness ==
    /\ Parsed(<<"#", "F", "F", "8", "0", "0", "0">>)
    /\ colorResult = PyTuple(<<1, 1>>, <<128, 255>>, <<0, 1>>)

(***************************************************************************)
(* C18: for every 3-digit hexadecimal shorthand abc, with or without '#',  *)
(* parse_color(abc) equals parse_color(aabbcc), the 6-digit string made by *)
(* doubling each digit.                                                    *)
(***************************************************************************)
C18_Shorthand ==
    (colorInput[1] = "str" /\ colorResult # Pending /\ HexString(colorInput[2], 3)) =>
        LET d == DigitsOf(colorInput[2])
            doubled == <<d[1], d[1], d[2], d[2], d[3], d[3]>>
        IN  /\ colorResult[1] = "tuple"
            /\ colorResult = parse_color(PyStr(doubled))
            /\ colorResult = parse_color(PyStr(<<"#">> \o doubled))

\* parse_color("#F80") returned (1, 136/255, 0), the value of "#FF8800"
C18_Witness ==
    /\ Parsed(<<"#", "F", "8", "0">>)
    /\ colorResult = PyTuple(<<1, 1>>, <<8, 15>>, <<0, 1>>)

(***************************************************************************)
(* C19: every name of the 21-name colour table resolves through            *)
(* parse_color to its table triple when parse_color is called; none of     *)
(* them yields no-match.                                                   *)
(***************************************************************************)
C19_Original ==
    \A name \in PresetKeys(ColorPresetsFirst) :
        Parsed(name) => colorResult = PresetValue(ColorPresetsFirst, name)

(***************************************************************************)
(* C20: the named lookup is case-insensitive: for every name of the colour *)
(* table and every upper/lower-case spelling of it, parse_color returns    *)
(* what it returns for the lower-case name; RED, Red and red give (1,0,0). *)
(***************************************************************************)
C20_CaseInsensitive ==
    (/\ colorInput[1] = "str"
     /\ colorResult # Pending
     /\ Lower(colorInput[2]) \in PresetKeys(ColorPresetsFirst)) =>
        /\ colorResult = parse_color(PyStr(Lower(colorInput[2])))
        /\ Lower(colorInput[2]) = <<"r", "e", "d">> =>
              colorResult = PyTuple(<<1, 1>>, <<0, 1>>, <<0, 1>>)

\* parse_color("ReD") returned (1, 0, 0)
C20_Witness ==
    /\ Parsed(<<"R", "e", "D">>)
    /\ colorResult = PyTuple(<<1, 1>>, <<0, 1>>, <<0, 1>>)

\* what is left of chars once surrounding whitespace and one leading '#' are removed
Bare(chars) == DigitsOf(Strip(chars))

\* chars spells a name of the colour table, in any capitalisation
IsTableName(chars) == Lower(Bare(chars)) \in PresetKeys(ColorPresetsFirst)

\* chars is six or three hexadecimal digits
IsHexColor(chars) ==
    \E n \in {3, 6} :
        Len(Bare(chars)) = n /\ \A i \in 1..n : Bare(chars)[i] \in AllHexDigits

IsTriple(v) == v[1] = "tuple"

(***************************************************************************)
(* C21: for every string, parse_color returns a triple or the no-match     *)
(* value and never raises; a string that is neither 6- or 3-digit hex nor  *)
(* a table name (the empty string, 6- or 3-character non-hex words)        *)
(* yields no-match.                                                        *)
(***************************************************************************)
C21_Original ==
    (colorInput[1] = "str" /\ colorResult # Pending) =>
        /\ IsTriple(colorResult) \/ colorResult = PyNone
        /\ (~IsHexColor(colorInput[2]) /\ ~IsTableName(colorInput[2])) =>
              colorResult = PyNone

\* for every string, parse_color returns a triple or None
C21_TripleOrNone ==
    (colorInput[1] = "str" /\ colorResult # Pending) =>
        IsTriple(colorResult) \/ colorResult = PyNone

\* the number <<n, d>> lies in [0, 1]
InUnitInterval(x) == 0 <= x[1] /\ x[1] <= x[2]

(***************************************************************************)
(* C27: a string is decoded as hex only if, after removing one leading     *)
(* '#', it is exactly 6 or exactly 3 hexadecimal digits; a 6- or           *)
(* 3-character string holding a sign, a space or a letter past f is never  *)
(* decoded as hex, so every colour parse_color returns for a string has    *)
(* its three channels in [0,1].                                            *)
(***************************************************************************)
C27_Original ==
    (colorInput[1] = "str" /\ IsTriple(colorResult)) =>
        /\ IsHexColor(colorInput[2]) \/ IsTableName(colorInput[2])
        /\ \A i \in 2..4 : InUnitInterval(colorResult[i])

\* the channels of a colour returned for six or three hexadecimal digits, or for
\* a name, lie in [0,1]
C27_HexInUnitInterval ==
    (/\ colorInput[1] = "str"
     /\ IsTriple(colorResult)
     /\ IsHexColor(colorInput[2]) \/ IsTableName(colorInput[2])) =>
        \A i \in 2..4 : InUnitInterval(colorResult[i])

(***************************************************************************)
(* modify_light, modify_material and modify_particles: the operations that *)
(* take a colour argument, hand it to parse_color and post the data.       *)
(***************************************************************************)
ModifyOps == {"modify_light", "modify_material", "modify_particles"}

\* lines 443, 461, 649: the path each operation posts to
ModifyPath(fn) ==
    CASE fn = "modify_light" -> "/unity/light/modify"
      [] fn = "modify_material" -> "/unity/material/modify"
      [] fn = "modify_particles" -> "/unity/particles/modify"

\* lines 434, 452, 641: the key the colour is stored under
ColorKey(fn) == IF fn = "modify_particles" THEN "startColor" ELSE "color"

\* "if color:" (lines 431, 449, 457, 639): None and the empty string are false
Truthy(v) == v # PyNone /\ v # PyStr(<<>>)

\* variant: whatever parse_color returned is stored
ColorResolvedAlways(c) == TRUE

\* "if c:" (lines 433, 451, 459, 641): a triple is true, None is false
ColorResolved(c) == IsTriple(c)

\* lines 434, 452, 460, 642: {"r": c[0], "g": c[1], "b": c[2], "a": 1}
ColorDict(c) == [r |-> c[2], g |-> c[3], b |-> c[4], a |-> <<1, 1>>]

\* line 430: the data before any optional field is added
ObjectsOnly == "objects" :> <<"Lamp">>

\* data with the field key set to the colour of arg, when arg is given and resolves
WithColor(data, key, arg) ==
    IF Truthy(arg) /\ ColorResolved(parse_color(arg))
    THEN (key :> ColorDict(parse_color(arg))) @@ data
    ELSE data

\* lines 430-442, 448-460, 630-648 with the numeric arguments left at None: the
\* data of the request; emission is an argument of modify_material only
ModifyData(fn, color, emission) ==
    IF fn = "modify_material"
    THEN WithColor(WithColor(ObjectsOnly, ColorKey(fn), color), "emission", emission)
    ELSE WithColor(ObjectsOnly, ColorKey(fn), color)

\* subscripting what parse_color returned raises when it is None
SubscriptRaises(fn, color, emission) ==
    \/ Truthy(color) /\ ColorResolved(parse_color(color)) /\ ~IsTriple(parse_color(color))
    \/ /\ fn = "modify_material"
       /\ Truthy(emission) /\ ColorResolved(parse_color(emission))
       /\ ~IsTriple(parse_color(emission))

\* modify_light (lines 428-443), modify_material (446-461), modify_particles
\* (627-649): build the data, then enter send_post_request (lines 243-247)
Modify(t, fn, color, emission) ==
    /\ pc[t] = "idle"
    /\ calls < MaxModifyCalls
    /\ fn # "modify_material" => emission = PyNone
    /\ calls' = calls + 1
    /\ attempts' = [attempts EXCEPT ![t] = <<>>]
    /\ probes' = [probes EXCEPT ![t] = <<>>]
    /\ health' = [health EXCEPT ![t] = "none"]
    /\ port' = [port EXCEPT ![t] = NoPort]
    /\ cycles' = [cycles EXCEPT ![t] = 0]
    /\ entryURL' = [entryURL EXCEPT ![t] = <<UNITY_BASE_URL, UNITY_SERVER_PORT>>]
    /\ elapsed' = [elapsed EXCEPT ![t] = 0]
    /\ waited' = [waited EXCEPT ![t] = 0]
    /\ printed' = [printed EXCEPT ![t] = <<>>]
    /\ IF SubscriptRaises(fn, color, emission)
       THEN /\ op' = [op EXCEPT ![t] = fn]
            /\ payload' = [payload EXCEPT ![t] =
                              [by |-> fn, color |-> color, emission |-> emission,
                               path |-> "", data |-> ObjectsOnly]]
            /\ pc' = [pc EXCEPT ![t] = "idle"]
            /\ ret' = [ret EXCEPT ![t] = Raised("TypeError")]
            /\ handler' = [handler EXCEPT ![t] = "propagate"]
            /\ UNCHANGED url
       ELSE /\ op' = [op EXCEPT ![t] = "send_post_request"]
            /\ payload' = [payload EXCEPT ![t] =
                              [by |-> fn, color |-> color, emission |-> emission,
                               path |-> ModifyPath(fn),
                               data |-> ModifyData(fn, color, emission)]]
            /\ url' = [url EXCEPT ![t] = UNITY_BASE_URL]
            /\ pc' = [pc EXCEPT ![t] = "request"]
            /\ ret' = [ret EXCEPT ![t] = Pending]
            /\ handler' = [handler EXCEPT ![t] = "none"]
    /\ UNCHANGED <<globals, idx, verified, returned, stdout, PRIMITIVES, server,
                   colorInput, colorResult>>

(***************************************************************************)
(* The three operations called with no colour, with the empty string, with *)
(* names the table in force holds or lacks, with hex and with a string     *)
(* that is no colour; the server refuses the connection or answers 200.    *)
(***************************************************************************)
ColorArgs ==
    {PyNone, PyStr(<<>>), PyStr(<<"r", "e", "d">>), PyStr(<<"p", "i", "n", "k">>),
     PyStr(<<"#", "F", "8", "0">>),
     PyStr(<<"n", "o", "t", "a", "c", "o", "l", "o", "r">>)}

EmissionArgs == {PyNone, PyStr(<<"r", "e", "d">>), PyStr(<<"p", "i", "n", "k">>)}

ModifyStep(t) ==
    \/ \E fn \in ModifyOps : \E color \in ColorArgs : \E emission \in EmissionArgs :
          Modify(t, fn, color, emission)
    \/ \E r \in PrimitiveOutcomes : Request(t, r)
    \/ \E r \in PrimitiveOutcomes : Probe(t, r)
    \/ StorePort(t)
    \/ Discovered(t)
    \/ \E r \in PrimitiveOutcomes : Retry(t, r)

NextModify == \E t \in SingleCaller : ModifyStep(t)

SpecModify == Init /\ [][NextModify]_vars

\* thread t is inside, or has returned from, a call of one of the three operations
InModify(t) == payload[t].by \in ModifyOps

\* no key of the data holds a colour
NoColorField(data) == DOMAIN data \cap {"color", "startColor"} = {}

(***************************************************************************)
(* C22: when the colour argument does not resolve (parse_color returns     *)
(* no-match), modify_light, modify_material and modify_particles treat it  *)
(* as absent: the request is dispatched exactly as without a colour, the   *)
(* colour field is omitted from the data, and no failure is reported for   *)
(* the colour.                                                             *)
(***************************************************************************)
C22_UnresolvedOmitted ==
    \A t \in Threads :
        (InModify(t) /\ parse_color(payload[t].color) = PyNone) =>
            /\ op[t] = "send_post_request"
            /\ payload[t].path = ModifyPath(payload[t].by)
            /\ payload[t].data = ModifyData(payload[t].by, PyNone, payload[t].emission)
            /\ NoColorField(payload[t].data)
            /\ ret[t] # Raised("TypeError")
            /\ (pc[t] = "request" /\ attempts[t] = <<>>) =>
                  (printed[t] = <<>> /\ ret[t] = Pending)

\* modify_light(color="pink") posted its data without a colour and the server
\* answered
C22_Witness ==
    \E t \in Threads :
        /\ payload[t].by = "modify_light"
        /\ payload[t].color = PyStr(<<"p", "i", "n", "k">>)
        /\ payload[t].data = ObjectsOnly
        /\ Len(attempts[t]) = 1
        /\ attempts[t][1].raised = "none"
        /\ ret[t] = PyDoc("{\"success\":true}")

\* the dispatch of thread t sent a retry and the retry failed
RetryFailed(t) ==
    DispatchDone(t) /\ Len(attempts[t]) = 2 /\ LastAttempt(t).raised # "none"

(***************************************************************************)
(* C23: the failure a dispatch reports is that of the attempt that failed, *)
(* also on the retry path: a retry that times out is reported as a         *)
(* timeout, a retry whose response does not parse as a malformed response, *)
(* and a connection failure is reported only when the retry itself could   *)
(* not connect or discovery found nothing.                                 *)
(***************************************************************************)
C23_Original ==
    \A t \in Threads :
        /\ RetryFailed(t) =>
              LastPrinted(t) = FailureMessage(Catch(SendHandlers, LastAttempt(t).raised))
        /\ (DispatchDone(t) /\ LastPrinted(t) = FailureMessage("ConnectionError")) =>
              \/ Catch(SendHandlers, LastAttempt(t).raised) = "ConnectionError"
                 /\ Len(attempts[t]) = 2
              \/ Len(attempts[t]) = 1 /\ cycles[t] = 1 /\ port[t] = NoPort

\* whatever made the retry fail, the dispatch reports that it cannot connect
C23_RetryFailureReportedAsConnection ==
    \A t \in Threads :
        RetryFailed(t) =>
            /\ LastPrinted(t) = FailureMessage("ConnectionError")
            /\ ret[t] = PyNone

\* the dispatch of thread t has returned after a connection failure followed by a
\* discovery that found no server
NotFoundDispatch(t) ==
    /\ DispatchDone(t)
    /\ Len(attempts[t]) = 1
    /\ Catch(SendHandlers, attempts[t][1].raised) = "ConnectionError"
    /\ cycles[t] = 1
    /\ port[t] = NoPort

(***************************************************************************)
(* C24: after a dispatch whose connection failure is followed by a         *)
(* discovery that finds no server, the cached endpoint is invalidated: it  *)
(* no longer names the address that failed, so that the next dispatch      *)
(* starts with discovery instead of a request to the stale address.        *)
(***************************************************************************)
C24_Original ==
    \A t \in Threads :
        NotFoundDispatch(t) =>
            /\ UNITY_BASE_URL # attempts[t][1].port
            /\ UNITY_SERVER_PORT # attempts[t][1].port

\* the dispatch called after such a dispatch sends its request to the address
\* that failed, before any discovery
C24_NextDispatchSendsToStale ==
    [][\A t \in Threads :
          (NotFoundDispatch(t) /\ pc'[t] # "idle" /\ op'[t] \in Dispatches) =>
              (pc'[t] = "request" /\ url'[t] = attempts[t][1].port)]_vars

(***************************************************************************)
(* The bridge facing one Unity server: the port `server` answers every     *)
(* probe with 200 and every request with a JSON document, every other port *)
(* refuses the connection.  The module starts with the default endpoint,   *)
(* which is not the server's.                                              *)
(***************************************************************************)
CandidatePorts == {UNITY_DEFAULT_PORTS[i] : i \in 1..Len(UNITY_DEFAULT_PORTS)}

JsonBodies == {b \in Bodies : IsJson(b)}

ServerOutcome(p, body) ==
    IF p = server THEN RespOutcome(StatusOK, body) ELSE ExcOutcome("ConnectionError")

InitHealing ==
    /\ Imported
    /\ stdout = "utf-8"
    /\ colorInput = NoColorInput
    /\ colorResult = Pending
    /\ server \in CandidatePorts \ {DefaultPort}

HealingStep(t) ==
    \/ \E o \in Dispatches : Call(t, o)
    \/ \E body \in JsonBodies : Request(t, ServerOutcome(url[t], body))
    \/ \E body \in JsonBodies : Probe(t, ServerOutcome(UNITY_DEFAULT_PORTS[idx[t]], body))
    \/ StorePort(t)
    \/ Discovered(t)
    \/ \E body \in JsonBodies : Retry(t, ServerOutcome(url[t], body))

NextHealing == \E t \in SingleCaller : HealingStep(t)

SpecHealing == InitHealing /\ [][NextHealing]_vars

(***************************************************************************)
(* C25: with one server on a candidate port that answers probes and        *)
(* requests with well-formed JSON, and every other candidate port (the     *)
(* cached one included) refusing connections, one dispatch returns the     *)
(* server's document through exactly one rediscovery and one retry to that *)
(* port, the cached endpoint becomes that port, and every later dispatch   *)
(* succeeds with exactly 1 request attempt and 0 probes.                   *)
(***************************************************************************)
C25_SelfHealing ==
    \A t \in Threads :
        (DispatchDone(t) /\ server # NoPort) =>
            /\ handler[t] = "none"
            /\ ret[t] = ParseJson(LastAttempt(t).body)
            /\ LastAttempt(t).port = server
            /\ LastAttempt(t).raised = "none"
            /\ <<UNITY_BASE_URL, UNITY_SERVER_PORT>> = <<server, server>>
            /\ IF entryURL[t] = <<server, server>>
               THEN Len(attempts[t]) = 1 /\ probes[t] = <<>> /\ cycles[t] = 0
               ELSE /\ Len(attempts[t]) = 2
                    /\ cycles[t] = 1
                    /\ IsConnectionFailure(attempts[t][1].raised)
                    /\ probes[t][Len(probes[t])] =
                          [port |-> server, by |-> "discover_server", ok |-> TRUE]

\* the third dispatch returned the document of the server on the last candidate
\* port after one request and no probe
C25_Witness ==
    \E t \in Threads :
        /\ DispatchDone(t)
        /\ server = UNITY_DEFAULT_PORTS[Len(UNITY_DEFAULT_PORTS)]
        /\ calls = 3
        /\ entryURL[t] = <<server, server>>
        /\ Len(attempts[t]) = 1
        /\ probes[t] = <<>>
        /\ ret[t] = PyDoc("{\"success\":true}")

\* the number of Rigidbody entries of a component list
Rigidbodies(components) ==
    Cardinality({i \in 1..Len(components) : components[i] = "Rigidbody"})

(***************************************************************************)
(* C26: the primitive registry is read-only: after any sequence of         *)
(* create_primitive calls, with any kinds and physics flags, PRIMITIVES    *)
(* equals its initial value; every create_primitive(cube, physics) call    *)
(* sends a list with exactly one Rigidbody whatever calls preceded it, and *)
(* a later call without physics sends none.                                *)
(***************************************************************************)
C26_RegistryReadOnly ==
    /\ PRIMITIVES = PrimitiveTemplates
    /\ \A t \in Threads :
          (InCreatePrimitive(t) /\ payload[t].kind = "cube") =>
              Rigidbodies(payload[t].components) = IF payload[t].physics THEN 1 ELSE 0

\* the third create_primitive call, for a cube without physics, sent the cube's
\* template list
C26_Witness ==
    \E t \in Threads :
        /\ InCreatePrimitive(t)
        /\ calls = 3
        /\ payload[t].kind = "cube"
        /\ ~payload[t].physics
        /\ payload[t].components = <<"MeshFilter", "MeshRenderer", "BoxCollider">>
        /\ Len(attempts[t]) >= 1

\* x is an int or a float
IsNumber(x) == x[1] \in {"int", "float"}

\* the value of the number x as a float
AsFloat(x) == IF x[1] = "int" THEN <<"float", <<x[2], 1>>>> ELSE x

JsonResponse(a) == a.status \in Statuses /\ a.body # "<html>"

\* discover_server accepted the candidate it probed last
CandidateAccepted(t) == pc[t] = "store_port" \/ port[t] # NoPort

(***************************************************************************)
(* C29: the dispatcher classifies outcomes by transport exception only,    *)
(* never by HTTP status: a response of any status (4xx and 5xx included)   *)
(* whose body parses as JSON is returned as the successful result, with no *)
(* retry and no rediscovery; the discovery probe accepts a candidate only  *)
(* when its status is exactly 200.                                         *)
(***************************************************************************)
C29_StatusIgnored ==
    \A t \in Threads :
        /\ (DispatchDone(t) /\ JsonResponse(LastAttempt(t))) =>
              /\ handler[t] = "none"
              /\ ret[t] = ParseJson(LastAttempt(t).body)
              /\ LastPrinted(t) = "json"
        /\ (DispatchDone(t) /\ JsonResponse(attempts[t][1])) =>
              (Len(attempts[t]) = 1 /\ cycles[t] = 0 /\ probes[t] = <<>>)
        /\ (InDispatch(t) /\ DiscoveryProbes(t) # <<>>) =>
              LET sent == DiscoveryProbes(t)
              IN  /\ \A i \in 1..(Len(sent) - 1) : ~sent[i].ok
                  /\ CandidateAccepted(t) <=> sent[Len(sent)].ok

\* a dispatch returned the document of a response with status 500
C29_Witness ==
    \E t \in Threads :
        /\ DispatchDone(t)
        /\ Len(attempts[t]) = 1
        /\ attempts[t][1].status = 500
        /\ ret[t] = PyDoc("{\"success\":true}")

\* the dispatch of thread t has returned after a rediscovery
Rediscovered(t) == DispatchDone(t) /\ cycles[t] = 1

(***************************************************************************)
(* C30: rediscovery replaces the cached endpoint as soon as a probe        *)
(* succeeds, whatever the retry does: after a dispatch whose rediscovery   *)
(* found port p, base URL and port both name p, also when the retry to p   *)
(* failed and the dispatch returned a failure; when rediscovery finds      *)
(* nothing, the cached endpoint keeps its previous value.                  *)
(***************************************************************************)
C30_EndpointReplaced ==
    \A t \in Threads :
        /\ (InDispatch(t) /\ pc[t] = "retry") =>
              <<UNITY_BASE_URL, UNITY_SERVER_PORT>> = <<port[t], port[t]>>
        /\ Rediscovered(t) =>
              IF port[t] # NoPort
              THEN /\ <<UNITY_BASE_URL, UNITY_SERVER_PORT>> = <<port[t], port[t]>>
                   /\ Len(attempts[t]) = 2
                   /\ LastAttempt(t).port = port[t]
              ELSE EndpointUnchanged(t) /\ Len(attempts[t]) = 1

\* rediscovery found a port other than the cached one, the retry to it timed out,
\* the dispatch returned None and the endpoint names the new port
C30_Witness ==
    \E t \in Threads :
        /\ Rediscovered(t)
        /\ port[t] # NoPort
        /\ entryURL[t] # <<port[t], port[t]>>
        /\ LastAttempt(t).raised = "ReadTimeout"
        /\ ret[t] = PyNone
        /\ <<UNITY_BASE_URL, UNITY_SERVER_PORT>> = <<port[t], port[t]>>

====
